---- MODULE Spec2Model ----
(***************************************************************************)
(* GoQuant trade simulator: the streaming-ingestion layer                  *)
(* (websocket_client.py: per-symbol listener threads writing into a        *)
(* Queue(maxsize=1)), the /stream consumers of app.py that drain those     *)
(* queues, and the dashboard callbacks of app.py.                          *)
(***************************************************************************)
EXTENDS Integers, Sequences, FiniteSets, TLC

\* ------------------------------------------------------------------ bounds
NumCallers == 2        \* concurrent callers of run_listener_for_symbol
NumConsumers == 2      \* /stream requests
MaxFrames == 2         \* well-formed frames the feed delivers in a run
MaxClock == 1          \* how far time.time() advances in a run
MaxAttempts == 3       \* connection attempts of one listener in a run
MaxEdits == 1          \* input changes in a run
MaxUpdates == 2        \* update_metrics invocations in a run
MaxSteps == 2          \* the largest number of time steps of a direct trajectory call
NumUpdaters == 2       \* request threads running update_metrics at the same time

\* ------------------------------------------------------- program constants
SYMBOLS == {"BTC-USDT-SWAP", "ETH-USDT-SWAP"}
DEFAULT_SYMBOL == "BTC-USDT-SWAP"
QUEUE_MAXSIZE == 1
RECONNECT_DELAY == 1   \* seconds to wait before reconnecting

Callers == 1..NumCallers
Consumers == 1..NumConsumers
Updaters == 1..NumUpdaters
\* Queue objects and threads the program can create within the bounds: the
\* default symbol's at import, then at most one per racing call.
MaxQueues == 1 + (NumCallers + NumConsumers) * (Cardinality(SYMBOLS) - 1)
MaxThreads == 1 + NumCallers * (Cardinality(SYMBOLS) - 1)
QueueIds == 1..MaxQueues
ThreadIds == 1..MaxThreads

NoQueue == 0           \* the symbol is not a key of orderbook_queues
NoSymbol == "-"
NoMsg == <<0, 0>>      \* no (data, timestamp) tuple

VARIABLES
  orderbook_queues,    \* the module dict: symbol -> Queue object (NoQueue: absent)
  nqueues,             \* Queue objects created so far
  queues,              \* Queue object -> its items, oldest first
  threads,             \* thread id -> listener thread (pc "none": not started)
  nthreads,            \* threads started so far
  caller,              \* a run_listener_for_symbol call in progress, per caller
  consumer,            \* a /stream request and its event_stream generator
  emitted,             \* per consumer: the ticks its generator has yielded
  written,             \* per Queue: the ticks put() was called with since its last get()
  subscribed,          \* symbols for which run_listener_for_symbol has returned
  nframes,             \* well-formed frames received so far (the next frame's data)
  clock                \* time.time()

ingestVars == <<orderbook_queues, nqueues, queues, threads, nthreads, caller,
                consumer, emitted, written, subscribed, nframes, clock>>

VARIABLES
  inputs,              \* the sidebar's values: the State of update_metrics
  alert_children,      \* input-alert children: the messages validate_inputs joined
  alert_open,          \* input-alert is_open
  dirty,               \* an input changed and validate_inputs has not answered yet
  paused,              \* pause-store data
  price_history,       \* deque(maxlen=MAX_HISTORY)
  time_history,        \* deque(maxlen=MAX_HISTORY)
  latency_history,     \* deque(maxlen=MAX_HISTORY)
  timer_last,          \* timer._last
  message,             \* the sse message property the latest update_metrics got
  metrics,             \* the outputs update_metrics returned last: <<>> before the first
  ticks,               \* the values timer.tick() has returned, in order
  call,                \* the latest direct call of a cost-model function
  ticking,             \* per request thread: its timer.tick() call in progress
  out,                 \* how the latest update_metrics invocation ended
  nupdates,            \* update_metrics invocations so far
  nedits               \* input changes so far

dashVars == <<inputs, alert_children, alert_open, dirty, paused, price_history,
              time_history, latency_history, timer_last, message, out, nupdates,
              nedits, metrics, ticks, call, ticking>>
\* what only update_metrics and the direct calls write
calcVars == <<metrics, ticks, call, ticking>>
vars == <<ingestVars, dashVars>>

\* ---------------------------------------------------------- queue.Queue
QueueFull(items) == Len(items) >= QUEUE_MAXSIZE

\* try: queue.put((data, timestamp), block=False) / except Full: pass
PutKeepsAll(items, item) == Append(items, item)
PutNowaitOrPass(items, item) ==
  IF QueueFull(items) THEN items ELSE Append(items, item)

\* queue.get(): the item returned and what stays in the queue
GetPeeks(items) == items
QueueAfterGet(items) == Tail(items)

\* ------------------------------------------------- get_orderbook_queue
\* The dict after get_orderbook_queue(symbol) ran as a whole.
DictAfterGet(symbol) ==
  IF orderbook_queues[symbol] = NoQueue
    THEN [orderbook_queues EXCEPT ![symbol] = nqueues + 1]
    ELSE orderbook_queues

CountAfterGet(symbol) ==
  IF orderbook_queues[symbol] = NoQueue THEN nqueues + 1 ELSE nqueues

\* --------------------------------------------------------- the threads
NoThread == [name |-> NoSymbol, queue |-> NoQueue, pc |-> "none",
             ev |-> "none", msg |-> NoMsg, attempts |-> 0, slept |-> <<>>]

\* threading.Thread(target=_start_listener, args=(uri, queue), name=f"ws-{symbol}")
\* attempts: the connections tried; slept: the delays asyncio.sleep has been
\* through, in order
NewThread(symbol, q) == [name |-> symbol, queue |-> q, pc |-> "connect",
                         ev |-> "none", msg |-> NoMsg, attempts |-> 0,
                         slept |-> <<>>]

\* threading.enumerate(): the threads that are alive
Alive(t) == threads[t].pc \notin {"none", "done"}

\* any(t.name == thread_name for t in threading.enumerate())
AnyNamedNever(symbol) == FALSE
AnyNamed(symbol) == \E t \in ThreadIds : Alive(t) /\ threads[t].name = symbol

ThreadsNamed(symbol) == {t \in ThreadIds : Alive(t) /\ threads[t].name = symbol}

\* ------------------------------------------------- the dashboard's values
\* A number is held in units of 1e-4, the finest step of the inputs
\* (input-lambda, step=1e-4), as <<units>>; None is <<>>.
Scale == 10000
None == <<>>
Num(units) == <<units>>
IsNone(x) == x = None
Val(x) == x[1]

\* float(x).is_integer()
IsIntegerAlways(x) == TRUE
IsInteger(x) == Val(x) % Scale = 0
\* int(x): truncation toward zero
IntOf(x) == IF Val(x) >= 0 THEN Val(x) \div Scale ELSE -((-Val(x)) \div Scale)

\* utils/fee_model.py: the keys of FEE_TIERS
FEE_TIERS == {"Tier 0", "Tier 1", "Tier 2"}

MAX_HISTORY == 200

\* The layout's initial values: quantity 100, volatility 0.3, Tier 0,
\* lambda 0.001, horizon 1.0, steps 20.
InitialInputs ==
  [quantity |-> Num(100 * Scale), volatility |-> Num(3000), fee_tier |-> "Tier 0",
   risk_aversion |-> Num(10), time_horizon |-> Num(Scale), time_steps |-> Num(20 * Scale)]

\* ------------------------------------------------------------ the numbers
\* A float is held as the exact fraction <<numerator, denominator>>, in lowest
\* terms with a positive denominator; <<0, 0>> is nan.
RECURSIVE GCD(_, _)
GCD(a, b) == IF b = 0 THEN a ELSE GCD(b, a % b)
Abs(n) == IF n < 0 THEN -n ELSE n
Rat(n, d) ==
  LET g == GCD(Abs(n), Abs(d))
      sign == IF d < 0 THEN -1 ELSE 1
  IN  <<sign * (n \div g), sign * (d \div g)>>
NaN == <<0, 0>>
Zero == Rat(0, 1)
One == Rat(1, 1)
RatNeg(x) == <<-x[1], x[2]>>
RatAdd(x, y) ==
  LET g == GCD(x[2], y[2])
  IN  Rat(x[1] * (y[2] \div g) + y[1] * (x[2] \div g), (x[2] \div g) * y[2])
RatSub(x, y) == RatAdd(x, RatNeg(y))
\* both in lowest terms: cancel crosswise, then multiply
RatMul(x, y) ==
  LET g == GCD(Abs(x[1]), y[2])
      h == GCD(Abs(y[1]), x[2])
  IN  IF x[1] = 0 \/ y[1] = 0 THEN <<0, 1>>
      ELSE <<(x[1] \div g) * (y[1] \div h), (x[2] \div h) * (y[2] \div g)>>
\* x / y for y # 0
RatDiv(x, y) == RatMul(x, Rat(y[2], y[1]))
RECURSIVE RatPow(_, _)
RatPow(x, k) == IF k = 0 THEN One ELSE RatMul(x, RatPow(x, k - 1))
RatLess(x, y) == x[1] * y[2] < y[1] * x[2]
RatLeq(x, y) == x[1] * y[2] <= y[1] * x[2]
RatInt(n) == Rat(n, 1)
\* the value of an input, held in units of 1/Scale
FromUnits(x) == Rat(Val(x), Scale)

RECURSIVE Pow10(_)
Pow10(k) == IF k = 0 THEN 1 ELSE 10 * Pow10(k - 1)
\* f"{x:.<places>f}": x rounded to that many decimals, a tie going to the even
\* digit; held as the count of units of the last decimal
Fixed(x, places) ==
  LET scaled == RatMul(x, RatInt(Pow10(places)))
      q == scaled[1] \div scaled[2]
      r == scaled[1] - q * scaled[2]
  IN  IF 2 * r < scaled[2] THEN q
      ELSE IF 2 * r > scaled[2] THEN q + 1
      ELSE IF q % 2 = 0 THEN q ELSE q + 1

\* -------------------------------------------------------- the cost models
\* models/slippage_model.py: coef = 1.0 without model_params
estimate_slippage(spread, quantity) == RatMul(RatMul(One, spread), quantity)

\* utils/fee_model.py, FEE_TIERS: the rates of each tier
TierRates(fee_tier) ==
  CASE fee_tier = "Tier 0" -> [maker |-> Rat(10, 10000), taker |-> Rat(20, 10000)]
    [] fee_tier = "Tier 1" -> [maker |-> Rat(8, 10000), taker |-> Rat(18, 10000)]
    [] fee_tier = "Tier 2" -> [maker |-> Rat(6, 10000), taker |-> Rat(16, 10000)]

\* tier = FEE_TIERS.get(fee_tier): <<>> is None
FeeTierGetOrFirst(fee_tier) ==
  IF fee_tier \in FEE_TIERS THEN <<TierRates(fee_tier)>> ELSE <<TierRates("Tier 0")>>
FeeTierGet(fee_tier) ==
  IF fee_tier \in FEE_TIERS THEN <<TierRates(fee_tier)>> ELSE <<>>

\* rate = tier['taker' if is_taker else 'maker']
RateMaker(tier, is_taker) == tier.maker
Rate(tier, is_taker) == IF is_taker THEN tier.taker ELSE tier.maker

\* What a call gives back: the value it returns, or the exception it raises.
Returns(value) == [raises |-> "no", value |-> value]
Raises(exception) == [raises |-> exception, value |-> None]

\* calculate_fee(price, quantity, fee_tier, is_taker)
calculate_fee(price, quantity, fee_tier, is_taker) ==
  LET tier == FeeTierGet(fee_tier)
  IN  IF tier = <<>>
        THEN Raises("ValueError")
        ELSE Returns(RatMul(RatMul(price, quantity), Rate(tier[1], is_taker)))

\* risk_term = 0.5 * risk_aversion * (volatility ** 2) * (quantity ** 2) / time_horizon
RiskTermLinear(quantity, time_horizon, volatility, risk_aversion) ==
  RatDiv(RatMul(RatMul(RatMul(Rat(1, 2), risk_aversion), RatPow(volatility, 2)),
                quantity),
         time_horizon)
RiskTerm(quantity, time_horizon, volatility, risk_aversion) ==
  RatDiv(RatMul(RatMul(RatMul(Rat(1, 2), risk_aversion), RatPow(volatility, 2)),
                RatPow(quantity, 2)),
         time_horizon)

\* models/market_impact_model.py: almgren_chriss_impact, for whole exponents;
\* a float divided by zero raises ZeroDivisionError
almgren_chriss_impact(quantity, time_horizon, alpha, beta, gamma, eta, volatility, risk_aversion) ==
  IF time_horizon = Zero
    THEN Raises("ZeroDivisionError")
    ELSE LET temp_impact == RatMul(eta, RatPow(RatDiv(quantity, time_horizon), alpha))
             perm_impact == RatMul(gamma, RatPow(RatDiv(quantity, time_horizon), beta))
             risk_term == RiskTerm(quantity, time_horizon, volatility, risk_aversion)
         IN  Returns(RatAdd(RatAdd(temp_impact, perm_impact), risk_term))

\* models/maker_taker_model.py without model_params: the weights are zeros, so
\* logits = 0.0 and prob = 1.0 / (1.0 + exp(-0.0))
predict_maker_proportion(features) == RatDiv(One, RatAdd(One, One))

\* np.linspace(0, T, N + 1) for N + 1 >= 0: N + 1 samples, the last one T
linspace(T, N) ==
  [i \in 1..(N + 1) |-> IF N = 0 THEN Zero ELSE Rat(T[1] * (i - 1), T[2] * N)]

\* if eta > 0 and lam * sigma**2 > 0:
SinhBranchNonNegative(eta, sigma, lam) ==
  RatLeq(Zero, eta) /\ RatLeq(Zero, RatMul(lam, RatPow(sigma, 2)))
SinhBranch(eta, sigma, lam) ==
  RatLess(Zero, eta) /\ RatLess(Zero, RatMul(lam, RatPow(sigma, 2)))

\* traj = X * (1 - times / T); an array divided by zero gives nan or inf
LinearTrajectoryFlat(X, T, times) == [i \in DOMAIN times |-> X]
LinearTrajectory(X, T, times) ==
  [i \in DOMAIN times |->
     IF T = Zero THEN NaN ELSE RatMul(X, RatSub(One, RatDiv(times[i], T)))]

\* Lines 282-287: the times and the trajectory of exec_fig. In the sinh branch
\* kappa = np.sqrt(lam * sigma**2 / eta) and the points are
\* X * sinh(kappa * (T - t)) / sinh(kappa * T): the radicand is kept, the
\* points are not evaluated. Dividing by eta = 0 raises ZeroDivisionError.
Trajectory(X, eta, sigma, lam, T, N) ==
  IF SinhBranch(eta, sigma, lam)
    THEN IF eta = Zero
           THEN Raises("ZeroDivisionError")
           ELSE Returns([branch |-> "sinh",
                         radicand |-> RatDiv(RatMul(lam, RatPow(sigma, 2)), eta),
                         times |-> linspace(T, N),
                         traj |-> <<>>])
    ELSE Returns([branch |-> "linear",
                  radicand |-> Zero,
                  times |-> linspace(T, N),
                  traj |-> LinearTrajectory(X, T, linspace(T, N))])

\* utils/latency_timer.py, tick(): latency_ms = (now - self._last) * 1000.0
LatencySinceFirst(now, last) == now * 1000
Latency(now, last) == (now - last) * 1000

\* No direct call yet.
\* A request thread outside timer.tick(); inside it, the locals now and
\* latency_ms of the call.
NotTicking == [pc |-> "idle", now |-> 0, latency_ms |-> 0]

NoCall == [fn |-> "none", args |-> <<>>, ret |-> Returns(None)]

\* The sse message property: nothing yet, or the payload of one tick,
\* {'data': {'bids': [[price, size], ...], 'asks': [...]}, 'timestamp': ts}.
NoMessage == [present |-> FALSE, bids |-> <<>>, asks |-> <<>>, ts |-> 0]
Tick(bids, asks, ts) == [present |-> TRUE, bids |-> bids, asks |-> asks, ts |-> ts]

Init ==
  \* app.py line 30: run_listener_for_symbol(DEFAULT_SYMBOL) at import
  /\ orderbook_queues = [s \in SYMBOLS |-> IF s = DEFAULT_SYMBOL THEN 1 ELSE NoQueue]
  /\ nqueues = 1
  /\ queues = [q \in QueueIds |-> <<>>]
  /\ threads = [t \in ThreadIds |-> IF t = 1 THEN NewThread(DEFAULT_SYMBOL, 1) ELSE NoThread]
  /\ nthreads = 1
  /\ caller = [c \in Callers |-> [pc |-> "idle", symbol |-> NoSymbol, queue |-> NoQueue]]
  /\ consumer = [c \in Consumers |-> [pc |-> "idle", symbol |-> NoSymbol, queue |-> NoQueue, since |-> 0]]
  /\ emitted = [c \in Consumers |-> <<>>]
  /\ written = [q \in QueueIds |-> <<>>]
  /\ subscribed = {DEFAULT_SYMBOL}
  /\ nframes = 0
  /\ clock = 0
  /\ inputs = InitialInputs
  /\ alert_children = <<>>
  /\ alert_open = FALSE
  /\ dirty = TRUE
  /\ paused = FALSE
  /\ price_history = <<>>
  /\ time_history = <<>>
  /\ latency_history = <<>>
  /\ timer_last = 0
  /\ message = NoMessage
  /\ metrics = <<>>
  /\ ticks = <<>>
  /\ call = NoCall
  /\ ticking = [u \in Updaters |-> NotTicking]
  /\ out = "none"
  /\ nupdates = 0
  /\ nedits = 0

\* ------------------------------------------------------- _ws_listener
\* Frame of the listener steps: what every step of thread t leaves alone.
ListenerFrame ==
  UNCHANGED <<orderbook_queues, nqueues, nthreads, caller, consumer, emitted,
              subscribed, dashVars>>

\* The feed fails a listener only while it has attempts left in the run.
CanFail(t) == threads[t].attempts < MaxAttempts

\* time.time(): non-decreasing; the values a read can return
TimesSetBack == 0..MaxClock
Times == {clock} \cup (IF clock < MaxClock THEN {clock + 1} ELSE {})

\* except Exception as exc: print(...); await asyncio.sleep(RECONNECT_DELAY)
\* The exception leaves the async-with block, which closes the connection.
OnExceptionExit(t, event) ==
  threads' = [threads EXCEPT ![t].pc = "done", ![t].ev = event, ![t].msg = NoMsg]
OnExceptionNoDelay(t, event) ==
  threads' = [threads EXCEPT ![t].pc = "connect", ![t].ev = event, ![t].msg = NoMsg]
OnException(t, event) ==
  threads' = [threads EXCEPT ![t].pc = "sleep", ![t].ev = event, ![t].msg = NoMsg]

\* async with websockets.connect(uri, ping_interval=5, ping_timeout=5, ...)
ListenerConnect(t) ==
  /\ threads[t].pc = "connect"
  /\ \/ threads' = [threads EXCEPT ![t].pc = "recv", ![t].ev = "connected",
                                   ![t].attempts = @ + 1]
     \/ \* the handshake fails (while the run has an attempt left after this one)
        /\ threads[t].attempts + 1 < MaxAttempts
        /\ threads' = [threads EXCEPT ![t].pc = "sleep", ![t].ev = "refused",
                                      ![t].msg = NoMsg, ![t].attempts = @ + 1]
  /\ UNCHANGED <<queues, written, nframes, clock>>
  /\ ListenerFrame

\* message = await websocket.recv(); data = json.loads(message); timestamp = time.time()
ListenerRecv(t) ==
  /\ threads[t].pc = "recv"
  /\ \/ \E now \in Times :
          /\ nframes < MaxFrames
          /\ nframes' = nframes + 1
          /\ clock' = now
          /\ threads' = [threads EXCEPT ![t].pc = "put", ![t].ev = "frame",
                                        ![t].msg = <<nframes + 1, now>>]
     \/ \* the payload is not JSON: json.loads raises inside the outer try
        /\ CanFail(t)
        /\ OnException(t, "badframe")
        /\ UNCHANGED <<nframes, clock>>
     \/ \* recv raises: the transport closed, or the ping timed out
        /\ CanFail(t)
        /\ OnException(t, "closed")
        /\ UNCHANGED <<nframes, clock>>
  /\ UNCHANGED <<queues, written>>
  /\ ListenerFrame

\* try: queue.put((data, timestamp), block=False) / except Full: pass
ListenerPutBlocking(t) ==
  /\ threads[t].pc = "put"
  /\ ~QueueFull(queues[threads[t].queue])
  /\ queues' = [queues EXCEPT ![threads[t].queue] = Append(@, threads[t].msg)]
  /\ written' = [written EXCEPT ![threads[t].queue] = Append(@, threads[t].msg)]
  /\ threads' = [threads EXCEPT ![t].pc = "recv", ![t].ev = "published"]
  /\ UNCHANGED <<nframes, clock>>
  /\ ListenerFrame
ListenerPut(t) ==
  /\ threads[t].pc = "put"
  /\ queues' = [queues EXCEPT ![threads[t].queue] = PutNowaitOrPass(@, threads[t].msg)]
  /\ written' = [written EXCEPT ![threads[t].queue] = Append(@, threads[t].msg)]
  /\ threads' = [threads EXCEPT ![t].pc = "recv",
                   ![t].ev = IF QueueFull(queues[threads[t].queue])
                               THEN "dropped" ELSE "published"]
  /\ UNCHANGED <<nframes, clock>>
  /\ ListenerFrame

\* asyncio.sleep(RECONNECT_DELAY) returns; while True: the next connect
ListenerRetry(t) ==
  /\ threads[t].pc = "sleep"
  /\ threads' = [threads EXCEPT ![t].pc = "connect", ![t].ev = "slept",
                                ![t].slept = Append(@, RECONNECT_DELAY)]
  /\ UNCHANGED <<queues, written, nframes, clock>>
  /\ ListenerFrame

\* ------------------------------------------------------------ /stream
\* stream(): queue = get_orderbook_queue(symbol), as a whole
StreamOpen(c, symbol) ==
  /\ consumer[c].pc = "idle"
  /\ orderbook_queues' = DictAfterGet(symbol)
  /\ nqueues' = CountAfterGet(symbol)
  /\ consumer' = [consumer EXCEPT ![c] = [pc |-> "get", symbol |-> symbol,
                    queue |-> DictAfterGet(symbol)[symbol], since |-> nframes]]
  /\ UNCHANGED <<queues, threads, nthreads, caller, emitted, written, subscribed,
                 nframes, clock>>
  /\ UNCHANGED dashVars

\* event_stream(): data, ts = queue.get(); yield the payload
StreamGet(c) ==
  /\ consumer[c].pc = "get"
  /\ queues[consumer[c].queue] # <<>>
  /\ emitted' = [emitted EXCEPT ![c] = Append(@, Head(queues[consumer[c].queue]))]
  /\ queues' = [queues EXCEPT ![consumer[c].queue] = QueueAfterGet(@)]
  /\ written' = [written EXCEPT ![consumer[c].queue] = <<>>]
  /\ UNCHANGED <<orderbook_queues, nqueues, threads, nthreads, caller, consumer,
                 subscribed, nframes, clock>>
  /\ UNCHANGED dashVars

\* ---------------------------------------------- the calls, step by step
\* A thread switch can fall between any two of these steps: the membership
\* test, the insertion and the final lookup of get_orderbook_queue, the scan
\* of threading.enumerate() and thread.start().

\* if symbol not in orderbook_queues:
AfterCheck(symbol) ==
  IF orderbook_queues[symbol] = NoQueue THEN "goq_set" ELSE "goq_ret"

\* update_stream_url(symbol): a request thread enters
\* run_listener_for_symbol(symbol)
CallerEnter(c, symbol) ==
  /\ caller[c].pc = "idle"
  /\ caller' = [caller EXCEPT ![c] = [pc |-> "goq_check", symbol |-> symbol,
                                      queue |-> NoQueue]]
  /\ UNCHANGED <<orderbook_queues, nqueues, queues, threads, nthreads, consumer,
                 emitted, written, subscribed, nframes, clock>>
  /\ UNCHANGED dashVars

CallerGoqCheck(c) ==
  /\ caller[c].pc = "goq_check"
  /\ caller' = [caller EXCEPT ![c].pc = AfterCheck(caller[c].symbol)]
  /\ UNCHANGED <<orderbook_queues, nqueues, queues, threads, nthreads, consumer,
                 emitted, written, subscribed, nframes, clock>>
  /\ UNCHANGED dashVars

\* orderbook_queues[symbol] = Queue(maxsize=1)
CallerGoqSet(c) ==
  /\ caller[c].pc = "goq_set"
  /\ nqueues < MaxQueues
  /\ nqueues' = nqueues + 1
  /\ orderbook_queues' = [orderbook_queues EXCEPT ![caller[c].symbol] = nqueues + 1]
  /\ caller' = [caller EXCEPT ![c].pc = "goq_ret"]
  /\ UNCHANGED <<queues, threads, nthreads, consumer, emitted, written,
                 subscribed, nframes, clock>>
  /\ UNCHANGED dashVars

\* return orderbook_queues[symbol]
CallerGoqRet(c) ==
  /\ caller[c].pc = "goq_ret"
  /\ caller' = [caller EXCEPT ![c].pc = "enumerate",
                              ![c].queue = orderbook_queues[caller[c].symbol]]
  /\ UNCHANGED <<orderbook_queues, nqueues, queues, threads, nthreads, consumer,
                 emitted, written, subscribed, nframes, clock>>
  /\ UNCHANGED dashVars

\* if not any(t.name == thread_name for t in threading.enumerate()):
CallerEnumerate(c) ==
  /\ caller[c].pc = "enumerate"
  /\ IF AnyNamed(caller[c].symbol)
       THEN /\ caller' = [caller EXCEPT ![c] = [pc |-> "idle", symbol |-> NoSymbol,
                                                queue |-> NoQueue]]
            /\ subscribed' = subscribed \cup {caller[c].symbol}
       ELSE /\ caller' = [caller EXCEPT ![c].pc = "start"]
            /\ UNCHANGED subscribed
  /\ UNCHANGED <<orderbook_queues, nqueues, queues, threads, nthreads, consumer,
                 emitted, written, nframes, clock>>
  /\ UNCHANGED dashVars

\* thread = threading.Thread(...); thread.start()
CallerStart(c) ==
  /\ caller[c].pc = "start"
  /\ nthreads < MaxThreads
  /\ threads' = [threads EXCEPT ![nthreads + 1] =
                   NewThread(caller[c].symbol, caller[c].queue)]
  /\ nthreads' = nthreads + 1
  /\ caller' = [caller EXCEPT ![c] = [pc |-> "idle", symbol |-> NoSymbol,
                                      queue |-> NoQueue]]
  /\ subscribed' = subscribed \cup {caller[c].symbol}
  /\ UNCHANGED <<orderbook_queues, nqueues, queues, consumer, emitted, written,
                 nframes, clock>>
  /\ UNCHANGED dashVars

\* a request thread enters stream() for symbol
StreamEnter(c, symbol) ==
  /\ consumer[c].pc = "idle"
  /\ consumer' = [consumer EXCEPT ![c].pc = "goq_check", ![c].symbol = symbol]
  /\ UNCHANGED <<orderbook_queues, nqueues, queues, threads, nthreads, caller,
                 emitted, written, subscribed, nframes, clock>>
  /\ UNCHANGED dashVars

StreamGoqCheck(c) ==
  /\ consumer[c].pc = "goq_check"
  /\ consumer' = [consumer EXCEPT ![c].pc = AfterCheck(consumer[c].symbol)]
  /\ UNCHANGED <<orderbook_queues, nqueues, queues, threads, nthreads, caller,
                 emitted, written, subscribed, nframes, clock>>
  /\ UNCHANGED dashVars

StreamGoqSet(c) ==
  /\ consumer[c].pc = "goq_set"
  /\ nqueues < MaxQueues
  /\ nqueues' = nqueues + 1
  /\ orderbook_queues' = [orderbook_queues EXCEPT ![consumer[c].symbol] = nqueues + 1]
  /\ consumer' = [consumer EXCEPT ![c].pc = "goq_ret"]
  /\ UNCHANGED <<queues, threads, nthreads, caller, emitted, written,
                 subscribed, nframes, clock>>
  /\ UNCHANGED dashVars

StreamGoqRet(c) ==
  /\ consumer[c].pc = "goq_ret"
  /\ consumer' = [consumer EXCEPT ![c].pc = "get",
                    ![c].queue = orderbook_queues[consumer[c].symbol],
                    ![c].since = nframes]
  /\ UNCHANGED <<orderbook_queues, nqueues, queues, threads, nthreads, caller,
                 emitted, written, subscribed, nframes, clock>>
  /\ UNCHANGED dashVars

NextConc ==
  \/ \E c \in Callers, s \in SYMBOLS : CallerEnter(c, s)
  \/ \E c \in Callers : CallerGoqCheck(c)
  \/ \E c \in Callers : CallerGoqSet(c)
  \/ \E c \in Callers : CallerGoqRet(c)
  \/ \E c \in Callers : CallerEnumerate(c)
  \/ \E c \in Callers : CallerStart(c)
  \/ \E c \in Consumers, s \in SYMBOLS : StreamEnter(c, s)
  \/ \E c \in Consumers : StreamGoqCheck(c)
  \/ \E c \in Consumers : StreamGoqSet(c)
  \/ \E c \in Consumers : StreamGoqRet(c)

\* The calls interleaved step by step.
SpecConc == Init /\ [][NextConc]_vars

\* Calls in progress: inside run_listener_for_symbol, inside stream() before
\* its generator runs.
InCall == {c \in Callers : caller[c].pc # "idle"}
InRequest == {c \in Consumers : consumer[c].pc \notin {"idle", "get"}}

\* The same steps with the calls made one after another: a call begins only
\* when no other is in progress.
NextSeq ==
  \/ \E c \in Callers, s \in SYMBOLS :
       InCall = {} /\ InRequest = {} /\ CallerEnter(c, s)
  \/ \E c \in Callers : CallerGoqCheck(c)
  \/ \E c \in Callers : CallerGoqSet(c)
  \/ \E c \in Callers : CallerGoqRet(c)
  \/ \E c \in Callers : CallerEnumerate(c)
  \/ \E c \in Callers : CallerStart(c)
  \/ \E c \in Consumers, s \in SYMBOLS :
       InCall = {} /\ InRequest = {} /\ StreamEnter(c, s)
  \/ \E c \in Consumers : StreamGoqCheck(c)
  \/ \E c \in Consumers : StreamGoqSet(c)
  \/ \E c \in Consumers : StreamGoqRet(c)

SpecSeq == Init /\ [][NextSeq]_vars

Next ==
  \/ \E t \in ThreadIds : ListenerConnect(t)
  \/ \E t \in ThreadIds : ListenerRecv(t)
  \/ \E t \in ThreadIds : ListenerPut(t)
  \/ \E t \in ThreadIds : ListenerRetry(t)
  \/ \E c \in Consumers, s \in SYMBOLS : StreamOpen(c, s)
  \/ \E c \in Consumers : StreamGet(c)

\* The listeners of the symbols subscribed at import and the /stream consumers.
Spec == Init /\ [][Next]_vars

\* asyncio runs the listener coroutine: a pending connect resolves (success,
\* or failure within the open timeout) and asyncio.sleep(RECONNECT_DELAY) returns.
Fairness ==
  \A t \in ThreadIds : WF_vars(ListenerConnect(t)) /\ WF_vars(ListenerRetry(t))

\* One listener and one consumer draining its slot: the listener's steps never
\* wait for a consumer, so the other consumers are left out of the liveness check.
NextListen ==
  \/ \E t \in ThreadIds : ListenerConnect(t)
  \/ \E t \in ThreadIds : ListenerRecv(t)
  \/ \E t \in ThreadIds : ListenerPut(t)
  \/ \E t \in ThreadIds : ListenerRetry(t)
  \/ \E c \in Consumers : c = 1 /\ StreamOpen(c, DEFAULT_SYMBOL)
  \/ \E c \in Consumers : StreamGet(c)

SpecFair == Init /\ [][NextListen]_vars /\ Fairness

\* ======================================================================
\* app.py: the dashboard callbacks
\* ======================================================================
NumberFields == {"quantity", "volatility", "risk_aversion", "time_horizon", "time_steps"}

\* What a user can put into an input: empty (None), a negative number, zero, a
\* positive number and, for the time steps, a fraction; for the fee tier (the
\* value travels in the callback request) also a name that is no key of FEE_TIERS.
Typed(field) ==
  CASE field = "quantity" -> {None, Num(-100 * Scale), Num(0), Num(100 * Scale)}
    [] field = "volatility" -> {None, Num(-3000), Num(0), Num(3000)}
    [] field = "risk_aversion" -> {None, Num(-10), Num(0), Num(10)}
    [] field = "time_horizon" -> {None, Num(-Scale), Num(0), Num(Scale)}
    [] field = "time_steps" -> {None, Num(-2 * Scale), Num(-Scale), Num(0),
                                Num(25000), Num(2 * Scale)}
    [] field = "fee_tier" -> FEE_TIERS \cup {"Tier 9"}

Messages ==
  {NoMessage} \cup
  {Tick(b, a, ts) : b \in {<<>>, <<100 * Scale>>}, a \in {<<>>, <<101 * Scale>>},
                    ts \in 0..clock}

\* A tick with both sides, stamped now.
BookTick == Tick(<<100 * Scale>>, <<101 * Scale>>, clock)

\* the user changes one input; the renderer will call validate_inputs
SetInput(field, value) ==
  /\ nedits < MaxEdits
  /\ value # inputs[field]
  /\ inputs' = [inputs EXCEPT ![field] = value]
  /\ dirty' = (dirty \/ field \in NumberFields)
  /\ nedits' = nedits + 1
  /\ UNCHANGED <<alert_children, alert_open, paused, price_history, time_history,
                 latency_history, timer_last, message, out, nupdates>>
  /\ UNCHANGED calcVars
  /\ UNCHANGED ingestVars

\* validate_inputs: the messages of the checks that fail, in order
Check(failed, text) == IF failed THEN <<text>> ELSE <<>>
Errors(inp) ==
  Check(IsNone(inp.quantity) \/ Val(inp.quantity) <= 0, "Quantity must be > 0")
  \o Check(IsNone(inp.volatility) \/ Val(inp.volatility) < 0, "Volatility must be >= 0")
  \o Check(IsNone(inp.risk_aversion) \/ Val(inp.risk_aversion) < 0,
           "Risk aversion must be >= 0")
  \o Check(IsNone(inp.time_horizon) \/ Val(inp.time_horizon) <= 0,
           "Time horizon (T) must be > 0")
  \o Check(IsNone(inp.time_steps) \/ Val(inp.time_steps) <= 0
             \/ ~IsInteger(inp.time_steps),
           "Time steps (N) must be a positive integer")

\* the validate_inputs callback answers: [message, is_open]
ValidateInputs ==
  /\ dirty
  /\ alert_children' = Errors(inputs)
  /\ alert_open' = (Errors(inputs) # <<>>)
  /\ dirty' = FALSE
  /\ UNCHANGED <<inputs, paused, price_history, time_history, latency_history,
                 timer_last, message, out, nupdates, nedits>>
  /\ UNCHANGED calcVars
  /\ UNCHANGED ingestVars

\* deque(maxlen=MAX_HISTORY).append(x)
DequeAppend(d, x) == IF Len(d) >= MAX_HISTORY THEN Append(Tail(d), x) ELSE Append(d, x)

\* if not message or paused or alert_open: raise PreventUpdate
SkipsWhilePaused(msg) == ~msg.present \/ alert_open
Skips(msg) == ~msg.present \/ paused \/ alert_open

\* if not bids or not asks: raise PreventUpdate
EmptySideBoth(msg) == msg.bids = <<>> /\ msg.asks = <<>>
EmptySide(msg) == msg.bids = <<>> \/ msg.asks = <<>>

\* best_bid = float(bids[0][0]); best_ask = float(asks[0][0]): indexing an
\* empty list raises IndexError
BestPriceRaises(msg) ==
  IF msg.bids = <<>> \/ msg.asks = <<>> THEN "IndexError" ELSE "no"

\* mid_price = 0.5 * (best_bid + best_ask)
MidPrice(msg) == (msg.bids[1] + msg.asks[1]) \div 2

\* Lines 210-228, slippage to maker proportion: the exception raised, if any.
\* quantity_usd / mid_price with None; calculate_fee with an unknown tier;
\* almgren_chriss_impact dividing by the horizon, then using lambda and sigma.
CostModelRaises(inp) ==
  IF IsNone(inp.quantity) THEN "TypeError"
  ELSE IF inp.fee_tier \notin FEE_TIERS THEN "ValueError"
  ELSE IF IsNone(inp.time_horizon) THEN "TypeError"
  ELSE IF Val(inp.time_horizon) = 0 THEN "ZeroDivisionError"
  ELSE IF IsNone(inp.risk_aversion) \/ IsNone(inp.volatility) THEN "TypeError"
  ELSE "no"

\* Lines 281-287: N = int(time_steps); np.linspace(0, T, N + 1) raises
\* ValueError on a negative number of samples.
TrajectoryRaises(inp) ==
  IF IsNone(inp.time_steps) THEN "TypeError"
  ELSE IF IntOf(inp.time_steps) + 1 < 0 THEN "ValueError"
  ELSE "no"

\* Lines 200-228 and 275-287 for a tick with both sides and parameters that
\* raise nothing before: the outputs, the numbers as the f-strings print them
\* (two decimals, the maker proportion as a percentage, the latency with one).
Outputs(msg, inp, latency) ==
  LET best_bid == Rat(msg.bids[1], Scale)
      best_ask == Rat(msg.asks[1], Scale)
      mid_price == RatMul(Rat(1, 2), RatAdd(best_bid, best_ask))
      spread == RatSub(best_ask, best_bid)
      X == RatDiv(FromUnits(inp.quantity), mid_price)
      slippage == estimate_slippage(spread, X)
      fees == calculate_fee(mid_price, X, inp.fee_tier, TRUE).value
      impact == almgren_chriss_impact(X, FromUnits(inp.time_horizon), 1, 1,
                                      Rat(5, 100), Rat(5, 100),
                                      FromUnits(inp.volatility),
                                      FromUnits(inp.risk_aversion)).value
      net_cost == RatAdd(RatAdd(slippage, fees), impact)
      maker_prop == predict_maker_proportion(<<spread, X, FromUnits(inp.volatility)>>)
      exec == Trajectory(X, Rat(5, 100), FromUnits(inp.volatility),
                         FromUnits(inp.risk_aversion), FromUnits(inp.time_horizon),
                         IntOf(inp.time_steps))
  IN  IF exec.raises # "no"
        THEN Raises(exec.raises)
        ELSE Returns([slippage |-> Fixed(slippage, 2),
                      fees |-> Fixed(fees, 2),
                      impact |-> Fixed(impact, 2),
                      net_cost |-> Fixed(net_cost, 2),
                      maker_prop |-> Fixed(RatMul(maker_prop, RatInt(100)), 2),
                      latency |-> Fixed(RatInt(latency), 1),
                      exec_fig |-> exec.value])

\* update_metrics(message, <the State values>)
UpdateMetrics(msg) ==
  LET ret == Outputs(msg, inputs, 0)
  IN
  /\ nupdates < MaxUpdates
  /\ nupdates' = nupdates + 1
  /\ message' = msg
  /\ IF Skips(msg) \/ EmptySide(msg) \/ BestPriceRaises(msg) # "no"
       THEN /\ out' = IF Skips(msg) \/ EmptySide(msg)
                        THEN "PreventUpdate" ELSE BestPriceRaises(msg)
            /\ UNCHANGED <<price_history, time_history, latency_history,
                           timer_last, clock, metrics, ticks>>
       ELSE /\ time_history' = DequeAppend(time_history, msg.ts)
            /\ price_history' = DequeAppend(price_history, MidPrice(msg))
            /\ IF CostModelRaises(inputs) # "no"
                 THEN /\ out' = CostModelRaises(inputs)
                      /\ UNCHANGED <<latency_history, timer_last, clock, metrics,
                                     ticks>>
                 ELSE \* latency = timer.tick(); latency_history.append(latency)
                      \E now \in Times :
                        /\ clock' = now
                        /\ timer_last' = now
                        /\ ticks' = Append(ticks, Latency(now, timer_last))
                        /\ latency_history' =
                             DequeAppend(latency_history, Latency(now, timer_last))
                        /\ IF TrajectoryRaises(inputs) # "no"
                             THEN /\ out' = TrajectoryRaises(inputs)
                                  /\ UNCHANGED metrics
                             ELSE IF ret.raises # "no"
                               THEN /\ out' = ret.raises
                                    /\ UNCHANGED metrics
                               ELSE /\ out' = "result"
                                    /\ metrics' =
                                         <<[ret.value EXCEPT !.latency =
                                              Fixed(RatInt(Latency(now, timer_last)), 1)]>>
  /\ UNCHANGED <<inputs, alert_children, alert_open, dirty, paused, nedits, call,
                 ticking>>
  /\ UNCHANGED <<orderbook_queues, nqueues, queues, threads, nthreads, caller,
                 consumer, emitted, written, subscribed, nframes>>

\* ------------------------------ timer.tick() of concurrent invocations
\* app.run() serves every callback request on a thread of its own, and the
\* invocations of update_metrics share the module's timer: a thread switch can
\* fall between any two statements of tick().
TickFrame ==
  /\ UNCHANGED <<inputs, alert_children, alert_open, dirty, paused, price_history,
                 time_history, message, out, nedits, metrics, call>>
  /\ UNCHANGED <<orderbook_queues, nqueues, queues, threads, nthreads, caller,
                 consumer, emitted, written, subscribed, nframes>>

\* an invocation reaches latency = timer.tick(): now = time.time()
TickNow(u) ==
  /\ ticking[u].pc = "idle"
  /\ nupdates < MaxUpdates
  /\ nupdates' = nupdates + 1
  /\ \E now \in Times :
       /\ clock' = now
       /\ ticking' = [ticking EXCEPT ![u] = [pc |-> "read", now |-> now, latency_ms |-> 0]]
  /\ UNCHANGED <<timer_last, ticks, latency_history>>
  /\ TickFrame

\* latency_ms = (now - self._last) * 1000.0
TickRead(u) ==
  /\ ticking[u].pc = "read"
  /\ ticking' = [ticking EXCEPT ![u].pc = "store",
                                ![u].latency_ms = Latency(ticking[u].now, timer_last)]
  /\ UNCHANGED <<timer_last, ticks, latency_history, clock, nupdates>>
  /\ TickFrame

\* self._last = now
TickStore(u) ==
  /\ ticking[u].pc = "store"
  /\ timer_last' = ticking[u].now
  /\ ticking' = [ticking EXCEPT ![u].pc = "return"]
  /\ UNCHANGED <<ticks, latency_history, clock, nupdates>>
  /\ TickFrame

\* return latency_ms; latency_history.append(latency)
TickReturn(u) ==
  /\ ticking[u].pc = "return"
  /\ ticks' = Append(ticks, ticking[u].latency_ms)
  /\ latency_history' = DequeAppend(latency_history, ticking[u].latency_ms)
  /\ ticking' = [ticking EXCEPT ![u] = NotTicking]
  /\ UNCHANGED <<timer_last, clock, nupdates>>
  /\ TickFrame

NextTick ==
  \/ \E u \in Updaters : TickNow(u)
  \/ \E u \in Updaters : TickRead(u)
  \/ \E u \in Updaters : TickStore(u)
  \/ \E u \in Updaters : TickReturn(u)

\* timer.tick() of the update_metrics invocations, statement by statement.
SpecTick == Init /\ [][NextTick]_vars

\* The keydown events of key-listener: no event yet, or a key.
Keys == {"", "p", "P", "r", "R", "x"}
\* event.get('key', '').lower()
LowerAsTyped(key) == key
Lower(key) == CASE key = "P" -> "p" [] key = "R" -> "r" [] OTHER -> key

\* toggle_pause(event, paused); no event: PreventUpdate
TogglePause(key) ==
  /\ key # ""
  /\ paused' = IF Lower(key) = "p" THEN ~paused ELSE paused
  /\ UNCHANGED <<inputs, alert_children, alert_open, dirty, price_history,
                 time_history, latency_history, timer_last, message, out, nupdates,
                 nedits>>
  /\ UNCHANGED calcVars
  /\ UNCHANGED ingestVars

\* reset_charts(event); no event: PreventUpdate
ResetCharts(key) ==
  /\ key # ""
  /\ IF Lower(key) = "r"
       THEN /\ price_history' = <<>>
            /\ time_history' = <<>>
            /\ latency_history' = <<>>
       ELSE UNCHANGED <<price_history, time_history, latency_history>>
  /\ UNCHANGED <<inputs, alert_children, alert_open, dirty, paused, timer_last,
                 message, out, nupdates, nedits>>
  /\ UNCHANGED calcVars
  /\ UNCHANGED ingestVars

NextDash ==
  \/ \E f \in NumberFields \cup {"fee_tier"} : \E v \in Typed(f) : SetInput(f, v)
  \/ ValidateInputs
  \/ \E msg \in Messages : UpdateMetrics(msg)
  \/ \E key \in Keys : TogglePause(key)
  \/ \E key \in Keys : ResetCharts(key)

\* The browser's callbacks against the server's globals.
SpecDash == Init /\ [][NextDash]_vars

\* The stream of ticks against the panel: every message, the keys, and the
\* time steps as the one input the user edits.
NextFeed ==
  \/ \E msg \in Messages : UpdateMetrics(msg)
  \/ \E key \in Keys : TogglePause(key)
  \/ \E key \in Keys : ResetCharts(key)
  \/ \E v \in Typed("time_steps") : SetInput("time_steps", v)
  \/ ValidateInputs

SpecFeed == Init /\ [][NextFeed]_vars

\* The input form: every input edited, validate_inputs answering, and well-
\* formed ticks arriving in between.
NextForm ==
  \/ \E f \in NumberFields \cup {"fee_tier"} : \E v \in Typed(f) : SetInput(f, v)
  \/ ValidateInputs
  \/ UpdateMetrics(BookTick)

SpecForm == Init /\ [][NextForm]_vars

\* ---------------------------------------------- the cost models, called
\* The arguments of the direct calls: the values of the unit tests
\* (tests/test_utils.py, tests/test_models.py), those update_metrics passes
\* for the default inputs on a 100/101 book, and the degenerate ones.
FeeOrders ==             \* (price, quantity)
  {<<RatInt(100), RatInt(2)>>, <<Rat(201, 2), Rat(200, 201)>>}
FeeTierNames == FEE_TIERS \cup {"InvalidTier"}
ImpactOrders ==          \* (quantity, time_horizon)
  {<<RatInt(10), RatInt(2)>>, <<Rat(200, 201), One>>, <<RatInt(10), Zero>>}
Exponents == {1, 2}
Coefficients == {One, Rat(5, 100)}
ImpactRisks ==           \* (volatility, risk_aversion)
  {<<RatInt(2), Rat(1, 2)>>, <<Rat(3, 10), Rat(1, 1000)>>}
Quantities == {RatInt(10), Rat(200, 201)}
Etas == {Rat(5, 100), Zero, Rat(-5, 100)}
TrajectoryRisks ==       \* (sigma, lam)
  {<<Rat(3, 10), Rat(1, 1000)>>, <<Zero, Rat(1, 1000)>>, <<Rat(3, 10), Zero>>,
   <<Rat(3, 10), Rat(-1, 1000)>>}
TrajectoryHorizons == {One, RatInt(2)}

\* A direct call is the one of its run: the functions keep no state, so a
\* later call does not depend on an earlier one.
FirstCall == call = NoCall

\* the frame every direct call leaves alone
CallFrame ==
  /\ UNCHANGED ingestVars
  /\ UNCHANGED <<inputs, alert_children, alert_open, dirty, paused, price_history,
                 time_history, latency_history, timer_last, message, out, nupdates,
                 nedits, metrics, ticks, ticking>>

\* calculate_fee(price, quantity, fee_tier, is_taker), called directly
CalculateFee(price, quantity, fee_tier, is_taker) ==
  /\ call' = [fn |-> "calculate_fee",
              args |-> [price |-> price, quantity |-> quantity,
                        fee_tier |-> fee_tier, is_taker |-> is_taker],
              ret |-> calculate_fee(price, quantity, fee_tier, is_taker)]
  /\ CallFrame

\* almgren_chriss_impact(...), called directly
AlmgrenChrissImpact(quantity, time_horizon, alpha, beta, gamma, eta, volatility, risk_aversion) ==
  /\ call' = [fn |-> "almgren_chriss_impact",
              args |-> [quantity |-> quantity, time_horizon |-> time_horizon,
                        alpha |-> alpha, beta |-> beta, gamma |-> gamma, eta |-> eta,
                        volatility |-> volatility, risk_aversion |-> risk_aversion],
              ret |-> almgren_chriss_impact(quantity, time_horizon, alpha, beta,
                                            gamma, eta, volatility, risk_aversion)]
  /\ CallFrame

\* Lines 276-287 of update_metrics on their own, with eta an argument
ExecutionTrajectory(X, eta, sigma, lam, T, N) ==
  /\ call' = [fn |-> "trajectory",
              args |-> [X |-> X, eta |-> eta, sigma |-> sigma, lam |-> lam,
                        T |-> T, N |-> N],
              ret |-> Trajectory(X, eta, sigma, lam, T, N)]
  /\ CallFrame

\* The unit tests' calls, and the same functions on other arguments.
DirectCall ==
  /\ FirstCall
  /\ \/ \E order \in FeeOrders, fee_tier \in FeeTierNames, is_taker \in BOOLEAN :
          CalculateFee(order[1], order[2], fee_tier, is_taker)
     \/ \E order \in ImpactOrders, alpha \in Exponents, beta \in Exponents,
           gamma \in Coefficients, risk \in ImpactRisks :
          AlmgrenChrissImpact(order[1], order[2], alpha, beta, gamma, gamma,
                              risk[1], risk[2])
     \/ \E X \in Quantities, eta \in Etas, risk \in TrajectoryRisks,
           T \in TrajectoryHorizons, N \in 0..MaxSteps :
          ExecutionTrajectory(X, eta, risk[1], risk[2], T, N)

NextCalc ==
  \/ DirectCall
  \/ \E fee_tier \in Typed("fee_tier") : SetInput("fee_tier", fee_tier)
  \/ UpdateMetrics(BookTick)

\* The cost-model functions called directly, and by update_metrics.
SpecCalc == Init /\ [][NextCalc]_vars

\* ======================================================================
\* The claims
\* ======================================================================

\* The tick the next queue.get() of slot q returns.
NextRead(q) == Head(queues[q])
Last(seq) == seq[Len(seq)]

\* C1: after two or more listener writes to a symbol's slot with no read in
\* between, the next read returns the most recently written tick.
C1_LatestWriteWins ==
  \A q \in QueueIds :
    Len(written[q]) >= 2 => queues[q] # <<>> /\ NextRead(q) = Last(written[q])

\* C2: a frame that fails to parse is dropped and the listener is back at the
\* receive of the same connection: no disconnect, no reconnect delay.
C2_BadFrameKeepsConnection ==
  \A t \in ThreadIds : threads[t].ev = "badframe" => threads[t].pc = "recv"

\* C3: the listener never terminates, and after its n-th connection attempt has
\* failed (n consecutive failures) it eventually makes attempt n+1.
C3_ReconnectForever ==
  /\ \A t \in ThreadIds : [](threads[t].pc # "done")
  /\ \A t \in ThreadIds : \A n \in 1..(MaxAttempts - 1) :
       (threads[t].pc = "sleep" /\ threads[t].attempts = n)
         ~> (threads[t].attempts = n + 1)

\* A listener has made its last attempt of the run after all the earlier failed.
C3_Witness ==
  \E t \in ThreadIds : threads[t].attempts = MaxAttempts /\ threads[t].pc = "recv"

\* C4: with the calls made one after another, every symbol subscribed at least
\* once has exactly one listener thread, and a call for a symbol that is already
\* subscribed starts no thread.
C4_OneThreadPerSubscribed ==
  /\ [](\A s \in subscribed : Cardinality(ThreadsNamed(s)) = 1)
  /\ [][\A c \in Callers :
          (caller[c].symbol \in subscribed /\ caller'[c].pc = "idle")
            => nthreads' = nthreads]_vars

\* A repeated call for a subscribed symbol is past get_orderbook_queue, every
\* symbol has been subscribed, and there are as many threads as symbols.
C4_Witness ==
  /\ subscribed = SYMBOLS
  /\ nthreads = Cardinality(SYMBOLS)
  /\ \E c \in Callers : caller[c].pc = "enumerate" /\ caller[c].symbol \in subscribed

\* C5: in every interleaving of concurrent run_listener_for_symbol calls, at
\* most one listener thread per symbol is ever started.
C5_AtMostOneThreadPerSymbol ==
  \A s \in SYMBOLS : Cardinality(ThreadsNamed(s)) <= 1

\* C6: a tick one consumer of a symbol has taken is delivered to the other
\* consumers of that symbol too: a consumer that was connected when the tick
\* arrived and has since received a later tick has received that tick.
C6_EveryConsumerGetsEveryTick ==
  \A c1 \in Consumers, c2 \in Consumers :
    (c1 # c2 /\ consumer[c1].pc = "get" /\ consumer[c2].pc = "get"
       /\ consumer[c1].queue = consumer[c2].queue)
    => \A i \in 1..Len(emitted[c1]) :
         (/\ emitted[c1][i][1] > consumer[c2].since
          /\ \E j \in 1..Len(emitted[c2]) : emitted[c2][j][1] > emitted[c1][i][1])
         => \E k \in 1..Len(emitted[c2]) : emitted[c2][k] = emitted[c1][i]

\* C7: the publish step never blocks: whenever a listener holds a received
\* frame, full slot or empty, its put can be taken at once and leaves the
\* listener at the next receive.
C7_PutNeverBlocks ==
  \A t \in ThreadIds :
    threads[t].pc = "put" => ENABLED (ListenerPut(t) /\ threads'[t].pc = "recv")

\* A put found the slot full and went on, with no consumer connected at all.
C7_Witness ==
  /\ \E t \in ThreadIds : threads[t].ev = "dropped" /\ threads[t].pc = "recv"
  /\ \A c \in Consumers : consumer[c].pc = "idle"

\* C8: every symbol's slot holds at most one tick.
C8_SlotHoldsAtMostOne ==
  \A q \in QueueIds : Len(queues[q]) <= 1

\* A slot holds one tick after two writes, the second onto the full slot.
C8_Witness ==
  \E t \in ThreadIds :
    /\ threads[t].ev = "dropped"
    /\ Len(written[threads[t].queue]) >= 2
    /\ Len(queues[threads[t].queue]) = 1

\* C9: a read removes the tick: a slot with no write since its last read is
\* empty, and no written (data, timestamp) is emitted by two reads.
C9_ConsumedAtMostOnce ==
  /\ \A q \in QueueIds : written[q] = <<>> => queues[q] = <<>>
  /\ \A c1 \in Consumers, c2 \in Consumers :
       \A i \in 1..Len(emitted[c1]), j \in 1..Len(emitted[c2]) :
         emitted[c1][i] = emitted[c2][j] => c1 = c2 /\ i = j

\* Two consumers of one slot have each read a tick, and the slot is empty.
C9_Witness ==
  \E c1 \in Consumers, c2 \in Consumers :
    /\ c1 # c2
    /\ consumer[c1].pc = "get" /\ consumer[c2].pc = "get"
    /\ consumer[c1].queue = consumer[c2].queue
    /\ emitted[c1] # <<>> /\ emitted[c2] # <<>>
    /\ queues[consumer[c1].queue] = <<>>

\* The parameters the cost model is defined for: quantity > 0, horizon > 0,
\* a positive whole number of steps, a fee tier of the table.
ParamsValid(inp) ==
  /\ ~IsNone(inp.quantity) /\ Val(inp.quantity) > 0
  /\ ~IsNone(inp.time_horizon) /\ Val(inp.time_horizon) > 0
  /\ ~IsNone(inp.time_steps) /\ Val(inp.time_steps) > 0 /\ IsInteger(inp.time_steps)
  /\ inp.fee_tier \in FEE_TIERS

\* C10: update_metrics never returns a metrics result computed from invalid
\* parameters, in whatever order the inputs change, validate_inputs answers and
\* the ticks arrive.
C10_NoResultFromInvalidParams ==
  [][(nupdates' # nupdates /\ out' = "result") => ParamsValid(inputs)]_vars

\* How an update_metrics invocation can end: the ten outputs, or an exception.
Outcomes == {"result", "PreventUpdate", "IndexError", "TypeError", "ValueError",
             "ZeroDivisionError"}

\* C11: update_metrics on a tick whose bids or asks are empty raises
\* (PreventUpdate) instead of returning a result, and leaves the price, time
\* and latency histories and the latency timer as they were.
C11_EmptySideFailsUnchanged ==
  [][(nupdates' # nupdates /\ message'.present
        /\ (message'.bids = <<>> \/ message'.asks = <<>>))
       => /\ out' = "PreventUpdate"
          /\ UNCHANGED <<price_history, time_history, latency_history, timer_last>>]_vars

\* A tick with an empty side arrived, unpaused and with the alert closed, after
\* an earlier tick had been recorded; the invocation raised.
C11_Witness ==
  /\ message.present /\ (message.bids = <<>> \/ message.asks = <<>>)
  /\ ~paused /\ ~alert_open /\ ~dirty
  /\ out = "PreventUpdate"
  /\ Len(price_history) = 1 /\ Len(latency_history) = 1

\* C12: an invocation that yields no metrics for its tick (the tick has an
\* empty side, or the alert is open on bad parameters) ends in an outcome that
\* an invocation without a message, made in the same state, cannot end in.
C12_NoMetricsDistinctFromNoData ==
  [][(nupdates' # nupdates /\ message'.present
        /\ (message'.bids = <<>> \/ message'.asks = <<>> \/ alert_open))
       => \A o \in Outcomes :
            out' = o => ~ENABLED (UpdateMetrics(NoMessage) /\ out' = o)]_vars

\* C13: the trajectory takes the linear branch whenever eta = 0 or
\* lam * sigma^2 is not strictly positive, and the sinh branch only when eta > 0
\* and lam * sigma^2 > 0; so computing kappa raises nothing (no division by
\* zero) and its radicand lam * sigma^2 / eta is strictly positive. The same
\* holds of the trajectory update_metrics last returned.
C13_KappaOnlyWhenDefined ==
  /\ call.fn = "trajectory" =>
       LET a == call.args
           product == RatMul(a.lam, RatMul(a.sigma, a.sigma))
       IN  /\ call.ret.raises = "no"
           /\ (a.eta = Zero \/ ~RatLess(Zero, product))
                => call.ret.value.branch = "linear"
           /\ call.ret.value.branch = "sinh"
                => /\ RatLess(Zero, a.eta) /\ RatLess(Zero, product)
                   /\ RatLess(Zero, call.ret.value.radicand)
  /\ \A i \in 1..Len(metrics) :
       metrics[i].exec_fig.branch = "sinh"
         => RatLess(Zero, metrics[i].exec_fig.radicand)

\* A direct call with eta = 0 and lam * sigma^2 > 0 took the linear branch, and
\* update_metrics has returned a sinh trajectory for the default inputs.
C13_Witness ==
  /\ call.fn = "trajectory"
  /\ call.args.eta = Zero
  /\ RatLess(Zero, call.args.lam) /\ call.args.sigma # Zero
  /\ call.ret.raises = "no" /\ call.ret.value.branch = "linear"
  /\ metrics # <<>> /\ metrics[1].exec_fig.branch = "sinh"

\* C14: for X > 0, T > 0 and a whole N > 0 the linear branch gives N + 1
\* points at evenly spaced times from 0 to T, starting at X, ending at exactly
\* 0, and never increasing.
C14_LinearTrajectoryShape ==
  (/\ call.fn = "trajectory"
   /\ RatLess(Zero, call.args.X) /\ RatLess(Zero, call.args.T) /\ call.args.N > 0
   /\ call.ret.raises = "no"
   /\ call.ret.value.branch = "linear")
  => LET N == call.args.N
         T == call.args.T
         times == call.ret.value.times
         traj == call.ret.value.traj
     IN  /\ Len(times) = N + 1 /\ Len(traj) = N + 1
         /\ times[1] = Zero /\ times[N + 1] = T
         /\ \A i \in 1..N : RatSub(times[i + 1], times[i]) = RatDiv(T, RatInt(N))
         /\ traj[1] = call.args.X /\ traj[N + 1] = Zero
         /\ \A i \in 1..N : RatLeq(traj[i + 1], traj[i])

\* A linear trajectory of the largest number of steps for X = 200/201, T = 2.
C14_Witness ==
  /\ call.fn = "trajectory"
  /\ call.args.X = Rat(200, 201) /\ call.args.T = RatInt(2)
  /\ call.args.N = MaxSteps
  /\ call.ret.raises = "no"
  /\ call.ret.value.branch = "linear"
  /\ Len(call.ret.value.traj) = MaxSteps + 1

RECURSIVE Sum(_)
Sum(seq) == IF seq = <<>> THEN 0 ELSE Head(seq) + Sum(Tail(seq))

\* C15: tick returns 1000 * (now - last) and then sets last = now, last being
\* the construction time (the clock reads 0 then) before the first call; so
\* with a clock that never goes back every returned value is >= 0, the first
\* call measures the time since construction, and the returned values add up
\* to 1000 * (time of the last call - construction time).
C15_TickMeasuresSinceLast ==
  /\ [][ticks' # ticks
          => /\ ticks' = Append(ticks, 1000 * (clock' - timer_last))
             /\ timer_last' = clock']_vars
  /\ [][(ticks = <<>> /\ ticks' # <<>>) => ticks'[1] = 1000 * (clock' - 0)]_vars
  /\ [](\A i \in 1..Len(ticks) : ticks[i] >= 0)
  /\ [](Sum(ticks) = 1000 * (timer_last - 0))

\* Two calls: the first after the clock had advanced, the second at once.
C15_Witness ==
  /\ Len(ticks) = 2 /\ ticks[1] > 0 /\ ticks[2] = 0
  /\ timer_last = clock

\* C16: calculate_fee with a fee tier that is no key of the table raises
\* ValueError and returns no value, whatever the price, the quantity and
\* is_taker: no rate is substituted.
C16_UnknownTierRaises ==
  (call.fn = "calculate_fee" /\ call.args.fee_tier \notin {"Tier 0", "Tier 1", "Tier 2"})
    => call.ret.raises = "ValueError" /\ call.ret.value = <<>>

\* calculate_fee was called with 'InvalidTier' as a maker order, and raised.
C16_Witness ==
  /\ call.fn = "calculate_fee"
  /\ call.args.fee_tier = "InvalidTier" /\ ~call.args.is_taker
  /\ call.ret.raises = "ValueError"

\* C17: for a tier of the table calculate_fee returns price * quantity * rate
\* with the tier's taker rate if is_taker and its maker rate otherwise
\* (100 * 2 * 0.0020 = 0.40 for a Tier 0 taker); and the fee update_metrics
\* reports is the one at the taker rate of the selected tier, printed with two
\* decimals.
C17_FeeIsPriceQuantityRate ==
  /\ [](call.fn = "calculate_fee" /\ call.args.fee_tier \in {"Tier 0", "Tier 1", "Tier 2"}
         => /\ call.ret.raises = "no"
            /\ call.ret.value =
                 RatMul(RatMul(call.args.price, call.args.quantity),
                        IF call.args.is_taker
                          THEN TierRates(call.args.fee_tier).taker
                          ELSE TierRates(call.args.fee_tier).maker))
  /\ []((/\ call.fn = "calculate_fee"
          /\ call.args = [price |-> RatInt(100), quantity |-> RatInt(2),
                          fee_tier |-> "Tier 0", is_taker |-> TRUE])
         => call.ret.value = Rat(40, 100))
  /\ [][(nupdates' # nupdates /\ out' = "result")
          => LET mid_price == Rat(message'.bids[1] + message'.asks[1], 2 * Scale)
                 quantity == RatDiv(FromUnits(inputs.quantity), mid_price)
             IN  metrics'[1].fees =
                   Fixed(RatMul(RatMul(mid_price, quantity),
                                TierRates(inputs.fee_tier).taker), 2)]_vars

\* A direct maker call for Tier 0 was made, and update_metrics has reported
\* the fee of the default order at Tier 1's taker rate: 100 * 0.0018 = 0.18.
C17_Witness ==
  /\ call.fn = "calculate_fee"
  /\ call.args.fee_tier = "Tier 0" /\ ~call.args.is_taker
  /\ call.ret.raises = "no"
  /\ inputs.fee_tier = "Tier 1" /\ out = "result"
  /\ metrics # <<>> /\ metrics[1].fees = 18

\* C18: almgren_chriss_impact returns tempImpact + permImpact + riskTerm with
\* tempImpact = eta * (quantity/T)^alpha, permImpact = gamma * (quantity/T)^beta,
\* riskTerm = 0.5 * risk_aversion * volatility^2 * quantity^2 / T (5 + 5 + 50 = 60
\* for quantity 10, T 2, exponents and coefficients 1, volatility 2, risk
\* aversion 0.5); and the net cost update_metrics reports is slippage + fee +
\* impact, printed with two decimals.
C18_ImpactAndNetCost ==
  /\ [](call.fn = "almgren_chriss_impact" /\ call.args.time_horizon # Zero
         => LET a == call.args
                rate == RatDiv(a.quantity, a.time_horizon)
                tempImpact == RatMul(a.eta, RatPow(rate, a.alpha))
                permImpact == RatMul(a.gamma, RatPow(rate, a.beta))
                riskTerm ==
                  RatDiv(RatMul(RatMul(Rat(1, 2), a.risk_aversion),
                                RatMul(RatMul(a.volatility, a.volatility),
                                       RatMul(a.quantity, a.quantity))),
                         a.time_horizon)
            IN  /\ call.ret.raises = "no"
                /\ call.ret.value = RatAdd(RatAdd(tempImpact, permImpact), riskTerm))
  /\ []((/\ call.fn = "almgren_chriss_impact"
          /\ call.args = [quantity |-> RatInt(10), time_horizon |-> RatInt(2),
                          alpha |-> 1, beta |-> 1, gamma |-> One, eta |-> One,
                          volatility |-> RatInt(2), risk_aversion |-> Rat(1, 2)])
         => call.ret.value = RatInt(60))
  /\ [][(nupdates' # nupdates /\ out' = "result")
          => LET best_bid == Rat(message'.bids[1], Scale)
                 best_ask == Rat(message'.asks[1], Scale)
                 mid_price == RatMul(Rat(1, 2), RatAdd(best_bid, best_ask))
                 quantity == RatDiv(FromUnits(inputs.quantity), mid_price)
                 slippage == estimate_slippage(RatSub(best_ask, best_bid), quantity)
                 fee == calculate_fee(mid_price, quantity, inputs.fee_tier, TRUE).value
                 impact ==
                   almgren_chriss_impact(quantity, FromUnits(inputs.time_horizon),
                                         1, 1, Rat(5, 100), Rat(5, 100),
                                         FromUnits(inputs.volatility),
                                         FromUnits(inputs.risk_aversion)).value
             IN  metrics'[1].net_cost =
                   Fixed(RatAdd(RatAdd(slippage, fee), impact), 2)]_vars

\* The unit test's call returned 60, and update_metrics has reported the net
\* cost 1.29 of the default order on the 100/101 book.
C18_Witness ==
  /\ call.fn = "almgren_chriss_impact"
  /\ call.args.quantity = RatInt(10) /\ call.args.time_horizon = RatInt(2)
  /\ call.ret.raises = "no" /\ call.ret.value = RatInt(60)
  /\ metrics # <<>> /\ metrics[1].net_cost = 129

\* The parameters validate_inputs is to reject: quantity missing or <= 0,
\* volatility missing or < 0, risk aversion missing or < 0, time horizon
\* missing or <= 0, time steps missing, <= 0 or not a whole number.
Missing(x) == x = <<>>
Invalid(inp) ==
  \/ Missing(inp.quantity) \/ inp.quantity[1] <= 0
  \/ Missing(inp.volatility) \/ inp.volatility[1] < 0
  \/ Missing(inp.risk_aversion) \/ inp.risk_aversion[1] < 0
  \/ Missing(inp.time_horizon) \/ inp.time_horizon[1] <= 0
  \/ Missing(inp.time_steps) \/ inp.time_steps[1] <= 0
  \/ inp.time_steps[1] % Scale # 0

\* C19: validate_inputs opens the alert with a non-empty message if and only
\* if some parameter is invalid; with all parameters valid it returns the
\* empty message and the alert closed.
C19_AlertIffInvalid ==
  [][(dirty /\ ~dirty')
       => /\ alert_open' <=> Invalid(inputs)
          /\ alert_open' <=> (alert_children' # <<>>)]_vars

\* validate_inputs has opened the alert on time steps that are positive but
\* not a whole number, every other parameter being valid.
C19_Witness ==
  /\ ~dirty /\ alert_open
  /\ alert_children = <<"Time steps (N) must be a positive integer">>
  /\ inputs.time_steps = Num(25000)

\* C20: toggle_pause flips the pause state exactly when the key is 'p' or 'P'
\* and leaves it as it was for any other key; while the pause state is true,
\* every update_metrics invocation raises PreventUpdate (no output) and leaves
\* the price, time and latency histories and the latency timer unchanged.
C20_PauseTogglesAndFreezes ==
  /\ [][\A key \in Keys : TogglePause(key)
          => (paused' = ~paused <=> key \in {"p", "P"})]_vars
  /\ [][(nupdates' # nupdates /\ paused)
          => /\ out' = "PreventUpdate"
             /\ UNCHANGED <<price_history, time_history, latency_history,
                            timer_last>>]_vars

\* A valid tick arrived while paused, after an earlier tick had produced a
\* result and been recorded: the histories still hold that one tick.
C20_Witness ==
  /\ paused /\ ~alert_open /\ ~dirty
  /\ message.present /\ message.bids # <<>> /\ message.asks # <<>>
  /\ out = "PreventUpdate"
  /\ Len(price_history) = 1 /\ Len(latency_history) = 1

\* C21: reset_charts empties the price, time and latency histories when the
\* key is 'r' or 'R' and leaves all three as they are for any other key; it
\* never changes the pause state or the latency timer. From every state the
\* call has that effect and no other, and every step that is a reset for some
\* key has it.
C21_ResetClearsOnlyOnR ==
  /\ [](\A key \in Keys \ {""} :
          /\ ENABLED ResetCharts(key)
          /\ ~ENABLED (/\ ResetCharts(key)
                       /\ \/ paused' # paused
                          \/ timer_last' # timer_last
                          \/ IF key \in {"r", "R"}
                               THEN <<price_history', time_history', latency_history'>>
                                      # <<<<>>, <<>>, <<>>>>
                               ELSE <<price_history', time_history', latency_history'>>
                                      # <<price_history, time_history, latency_history>>))
  /\ [][\A key \in Keys : ResetCharts(key)
          => /\ key \in {"r", "R"}
                => price_history' = <<>> /\ time_history' = <<>> /\ latency_history' = <<>>
             /\ key \notin {"r", "R"}
                => UNCHANGED <<price_history, time_history, latency_history>>
             /\ UNCHANGED <<paused, timer_last>>]_vars

\* The histories are empty after a tick had been recorded and timed, with the
\* pause state set and the timer where that tick left it.
C21_Witness ==
  /\ out = "result" /\ ticks # <<>>
  /\ price_history = <<>> /\ time_history = <<>> /\ latency_history = <<>>
  /\ paused /\ timer_last = MaxClock

C23_OneFixedDelayPerRetry ==
  /\ [](\A t \in ThreadIds :
          /\ threads[t].pc = "connect" => Len(threads[t].slept) = threads[t].attempts
          /\ threads[t].pc \in {"recv", "put", "sleep"}
               => Len(threads[t].slept) = threads[t].attempts - 1
          /\ \A i \in 1..Len(threads[t].slept) : threads[t].slept[i] = 1)
  /\ [][\A t \in ThreadIds :
          /\ (threads'[t].attempts = threads[t].attempts + 1 /\ threads[t].attempts >= 1)
               => threads[t].ev = "slept"
          /\ (threads'[t].pc = "sleep" /\ threads[t].pc # "sleep")
               => threads'[t].ev \in {"refused", "badframe", "closed"}
          /\ Len(threads'[t].slept) > Len(threads[t].slept)
               => /\ threads[t].pc = "sleep"
                  /\ Len(threads'[t].slept) = Len(threads[t].slept) + 1]_vars

\* A listener is connected on the last attempt of the run, after sleeping
\* once for each of the failures before it.
C23_Witness ==
  \E t \in ThreadIds :
    /\ threads[t].pc = "recv" /\ threads[t].ev = "connected"
    /\ threads[t].attempts = MaxAttempts
    /\ Len(threads[t].slept) = MaxAttempts - 1

\* The Queue objects get_orderbook_queue has returned for a symbol: to a
\* run_listener_for_symbol call, to the listener thread it started, to a
\* /stream request.
SlotsObtained(symbol) ==
  {caller[c].queue : c \in {d \in Callers : caller[d].symbol = symbol}}
  \cup {threads[t].queue : t \in {u \in ThreadIds : threads[u].name = symbol}}
  \cup {consumer[c].queue : c \in {d \in Consumers : consumer[d].symbol = symbol}}

\* C24: in every interleaving of the get_orderbook_queue calls, all callers
\* for one symbol are given the same Queue object, so the symbol's listener
\* and its consumers use one slot, and two symbols never share one.
C24_OneSlotPerSymbol ==
  /\ \A symbol \in SYMBOLS : Cardinality(SlotsObtained(symbol) \ {NoQueue}) <= 1
  /\ \A s1 \in SYMBOLS, s2 \in SYMBOLS :
       s1 # s2 => (SlotsObtained(s1) \cap SlotsObtained(s2)) \ {NoQueue} = {}

\* The update_metrics invocations between the read of timer._last and its
\* update inside tick().
InTick == {u \in Updaters : ticking[u].pc \in {"read", "store"}}

\* C25: in every interleaving of update_metrics invocations, no invocation's
\* tick() runs between another's read of the last timestamp and its update,
\* and once every call has returned the latencies returned add up to the time
\* elapsed since the timer was constructed (the clock reads 0 then).
C25_TickNotInterleaved ==
  /\ Cardinality(InTick) <= 1
  /\ (\A u \in Updaters : ticking[u].pc = "idle")
       => Sum(ticks) = 1000 * (clock - 0)

\* C26: after any sequence of update_metrics and reset_charts invocations the
\* price, time and latency histories have the same length, and an
\* update_metrics invocation that ends without a result (skipped, or failed
\* part-way) leaves all three as they were.
C26_HistoriesInStep ==
  /\ [](/\ Len(price_history) = Len(time_history)
         /\ Len(time_history) = Len(latency_history))
  /\ [][(nupdates' # nupdates /\ out' # "result")
          => UNCHANGED <<price_history, time_history, latency_history>>]_vars

====
